---- MODULE Spec2Model ----
(***************************************************************************)
(* Model of code/python_tutorial.py (Multiplier, LoggingTape, Logger, Car) *)
(* and of env_setup/setup.py (main and the steps it calls).                *)
(*                                                                         *)
(* Python values are modelled as follows: None is 0 and a LoggingTape      *)
(* object is its creation index 1, 2, ...; the attribute `logs` is a       *)
(* record [kind, items] whose kind is "ellipsis" for the value `...` and   *)
(* "list" for a list; an exception is named by its class and "None" means  *)
(* that no exception is in flight.                                         *)
(***************************************************************************)
EXTENDS Integers, Sequences, FiniteSets, TLC

\* ------------------------------------------------------------------ bounds
MaxTapes == 3
MaxOps == 5
MaxAbs == 5

\* --------------------------------------------------------------- variables
VARIABLES
    logs,          \* LoggingTape objects created so far: logs[r] is r.logs
    logging_tape,  \* the class attribute Logger.logging_tape
    stack,         \* the open `with` statements, innermost last
    tape,          \* the module-level name `tape` bound by `with ... as tape`
    exc,           \* the exception in flight ("None" when there is none)
    raised,        \* history: the exception as first raised, and where
    caught,        \* the exception that reached the caller of the windows
    appended,      \* history: per object, the entries add_to_log accepted
    out,           \* the lines written by the last print_logs call
    last,          \* history: the last call made and how it ended
    nops,          \* number of calls made by the driver so far
    mArgs,         \* positional arguments of the Multiplier call
    mRet,          \* what the Multiplier call produced
    pc,            \* setup.py: the statement of main() to run next
    version,       \* sys.version_info[:2]
    os_type,       \* the os_type get_os_info returned
    pyExe,         \* whether <env>/bin/python can be started
    pipExe,        \* whether <env>/bin/pip can be started
    ran,           \* history: the steps main() has called, in order
    res,           \* history: what each step returned
    inst,          \* history: the commands install_requirements ran
    banner,        \* whether "SETUP COMPLETE!" has been printed
    exitcode       \* the exit status of the process (-1 while running)

tapeVars == <<logs, logging_tape, stack, tape, exc, raised, caught, appended,
              out, last, nops>>
mulVars == <<mArgs, mRet>>
setupVars == <<pc, version, os_type, pyExe, pipExe, ran, res, inst, banner,
               exitcode>>
vars == <<tapeVars, mulVars, setupVars>>

\* ------------------------------------------------------------ Python values
None == 0

Ellipsis == [kind |-> "ellipsis", items |-> <<>>]

List(s) == [kind |-> "list", items |-> s]

Entries == {"Hi!", "Bye"}

Distances == {5, 7}

\* ---------------------------------------------------------- python_tutorial
\* LoggingTape.__init__: self.logs = ...
LoggingTape_init == Ellipsis

\* Mutant of __enter__: it publishes the new object in the slot and returns it.
LoggingTape_enter_publishes(self) ==
    [slot |-> self, ret |-> self, exc |-> "None"]

\* LoggingTape.__enter__: `pass`. The effect on the slot, the value returned
\* (bound by `as`) and the exception raised.
LoggingTape_enter(self) ==
    [slot |-> logging_tape, ret |-> None, exc |-> "None"]

\* LoggingTape.__exit__: `pass`. The effect on the slot and the value
\* returned (a true value would swallow the exception in flight).
LoggingTape_exit(self) ==
    [slot |-> logging_tape, ret |-> None]

\* LoggingTape.add_to_log: `pass`. The new value of self.logs and whether
\* the call took the entry.
LoggingTape_add_to_log(self, new_log) ==
    [logs |-> logs[self], exc |-> "None"]

\* LoggingTape.print_logs: for log in self.logs: print(log).
\* Iterating over `...` raises TypeError before anything is printed.
LoggingTape_print_logs(self) ==
    IF logs[self].kind = "list"
    THEN [out |-> logs[self].items, exc |-> "None"]
    ELSE [out |-> <<>>, exc |-> "TypeError"]

\* The f-string of Car.travel.
TravelEntry(distance) == "Traveled Distance " \o ToString(distance)

\* Mutant of Car.travel: an empty slot is skipped in silence.
Car_travel_skips_none(distance) ==
    [target |-> logging_tape, logs |-> Ellipsis, exc |-> "None"]

\* Car.travel: self.logging_tape.add_to_log(f"Traveled Distance {distance}").
\* The attribute is looked up on the class at call time; on None the
\* attribute access add_to_log raises AttributeError.
Car_travel(distance) ==
    IF logging_tape = None
    THEN [target |-> None, logs |-> Ellipsis, exc |-> "AttributeError"]
    ELSE [target |-> logging_tape,
          logs |-> LoggingTape_add_to_log(logging_tape,
                                          TravelEntry(distance)).logs,
          exc |-> LoggingTape_add_to_log(logging_tape,
                                         TravelEntry(distance)).exc]

\* Number of parameters of Multiplier.__call__ besides self.
Multiplier_call_params == 0

\* Multiplier.__call__(self): `pass`. Python binds the positional arguments
\* first: a call with more or fewer than the declared ones raises TypeError.
Multiplier_call(args) ==
    IF Len(args) # Multiplier_call_params
    THEN [kind |-> "TypeError", val |-> 0]
    ELSE [kind |-> "None", val |-> 0]

\* ------------------------------------------------------------------- driver
Depth == Len(stack)

Top == stack[Len(stack)]

Objects == 1 .. Len(logs)

NoCall == [op |-> "none", target |-> None, arg |-> "", outcome |-> "None",
           slotBefore |-> None, depthBefore |-> 0, logsBefore |-> <<>>]

Call(op, target, arg, outcome) ==
    [op |-> op, target |-> target, arg |-> arg, outcome |-> outcome,
     slotBefore |-> logging_tape, depthBefore |-> Depth, logsBefore |-> logs]

Raise(e) ==
    /\ exc' = e
    /\ raised' = IF e = "None" THEN raised
                 ELSE [exc |-> e, in |-> IF Depth = 0 THEN None ELSE Top.mgr]

Running == exc = "None" /\ nops < MaxOps

\* with LoggingTape() as tape:   (construction, __enter__, binding of `tape`)
WithEnter ==
    /\ Running
    /\ Len(logs) < MaxTapes
    /\ LET self == Len(logs) + 1
           logs1 == Append(logs, LoggingTape_init)
           r == LoggingTape_enter(self)
       IN /\ logs' = logs1
          /\ appended' = Append(appended, <<>>)
          /\ logging_tape' = r.slot
          /\ Raise(r.exc)
          /\ IF r.exc = "None"
             THEN /\ stack' = Append(stack, [mgr |-> self, as |-> r.ret])
                  /\ tape' = r.ret
             ELSE UNCHANGED <<stack, tape>>
          /\ last' = Call("enter", self, "", r.exc)
    /\ nops' = nops + 1
    /\ UNCHANGED <<caught, out, mulVars, setupVars>>

\* The end of a `with` block reached normally: __exit__(None, None, None).
WithExit ==
    /\ Running
    /\ Depth > 0
    /\ LET r == LoggingTape_exit(Top.mgr)
       IN /\ logging_tape' = r.slot
          /\ last' = Call("exit", Top.mgr, "", "None")
    /\ stack' = SubSeq(stack, 1, Depth - 1)
    /\ nops' = nops + 1
    /\ UNCHANGED <<logs, tape, exc, raised, caught, appended, out, mulVars,
                   setupVars>>

\* v.add_to_log(e), v being the name `tape` or a LoggingTape object.
AddToLog(v, e) ==
    /\ Running
    /\ IF v = None
       THEN /\ Raise("AttributeError")
            /\ last' = Call("add_to_log", v, e, "AttributeError")
            /\ UNCHANGED <<logs, appended>>
       ELSE LET r == LoggingTape_add_to_log(v, e)
            IN /\ logs' = [logs EXCEPT ![v] = r.logs]
               /\ Raise(r.exc)
               /\ appended' = IF r.exc = "None"
                              THEN [appended EXCEPT ![v] = Append(@, e)]
                              ELSE appended
               /\ last' = Call("add_to_log", v, e, r.exc)
    /\ nops' = nops + 1
    /\ UNCHANGED <<logging_tape, stack, tape, caught, out, mulVars, setupVars>>

\* car.travel(d) for a Car made before any window.
CarTravel(d) ==
    /\ Running
    /\ LET r == Car_travel(d)
       IN /\ Raise(r.exc)
          /\ logs' = IF r.target = None THEN logs
                     ELSE [logs EXCEPT ![r.target] = r.logs]
          /\ appended' = IF r.exc = "None" /\ r.target # None
                         THEN [appended EXCEPT
                                 ![r.target] = Append(@, TravelEntry(d))]
                         ELSE appended
          /\ last' = Call("travel", r.target, TravelEntry(d), r.exc)
    /\ nops' = nops + 1
    /\ UNCHANGED <<logging_tape, stack, tape, caught, out, mulVars, setupVars>>

\* v.print_logs(), v being the name `tape` or a LoggingTape object.
PrintLogs(v) ==
    /\ Running
    /\ IF v = None
       THEN /\ Raise("AttributeError")
            /\ out' = <<>>
            /\ last' = Call("print_logs", v, "", "AttributeError")
       ELSE LET r == LoggingTape_print_logs(v)
            IN /\ Raise(r.exc)
               /\ out' = r.out
               /\ last' = Call("print_logs", v, "", r.exc)
    /\ nops' = nops + 1
    /\ UNCHANGED <<logs, logging_tape, stack, tape, caught, appended, mulVars,
                   setupVars>>

\* The body of the innermost window raises an error of its own.
BodyRaises ==
    /\ Running
    /\ Depth > 0
    /\ Raise("UserError")
    /\ last' = Call("raise", Top.mgr, "", "UserError")
    /\ nops' = nops + 1
    /\ UNCHANGED <<logs, logging_tape, stack, tape, caught, appended, out,
                   mulVars, setupVars>>

\* An exception leaves the innermost `with` block: __exit__(type, value, tb)
\* runs, and a true return value swallows the exception.
Unwind ==
    /\ exc # "None"
    /\ Depth > 0
    /\ LET r == LoggingTape_exit(Top.mgr)
       IN /\ logging_tape' = r.slot
          /\ exc' = IF r.ret # None THEN "None" ELSE exc
          /\ last' = Call("exit", Top.mgr, "", exc)
    /\ stack' = SubSeq(stack, 1, Depth - 1)
    /\ UNCHANGED <<logs, tape, raised, caught, appended, out, nops, mulVars,
                   setupVars>>

\* The exception leaves the outermost block and the caller catches it.
Catch ==
    /\ exc # "None"
    /\ Depth = 0
    /\ caught' = exc
    /\ exc' = "None"
    /\ last' = Call("catch", raised.in, "", exc)
    /\ UNCHANGED <<logs, logging_tape, stack, tape, raised, appended, out,
                   nops, mulVars, setupVars>>

MulIdle == mArgs = <<>> /\ mRet = [kind |-> "notcalled", val |-> 0]

NoResults == [check_python_version |-> "notrun",
              check_system_dependencies |-> "notrun",
              create_virtual_environment |-> "notrun",
              install_requirements |-> "notrun",
              setup_jupyter_kernel |-> "notrun",
              verify_installation |-> "notrun"]

SetupIdle ==
    /\ pc = "idle"
    /\ version = <<3, 11>>
    /\ os_type = "unknown"
    /\ pyExe = FALSE
    /\ pipExe = FALSE
    /\ ran = <<>>
    /\ res = NoResults
    /\ inst = <<>>
    /\ banner = FALSE
    /\ exitcode = -1

TapeIdle ==
    /\ logs = <<>>
    /\ logging_tape = None
    /\ stack = <<>>
    /\ tape = None
    /\ exc = "None"
    /\ raised = [exc |-> "None", in |-> None]
    /\ caught = "None"
    /\ appended = <<>>
    /\ out = <<>>
    /\ last = NoCall
    /\ nops = 0

TapeNext ==
    \/ WithEnter
    \/ WithExit
    \/ \E v \in Objects \cup {tape}, e \in Entries : AddToLog(v, e)
    \/ \E d \in Distances : CarTravel(d)
    \/ \E v \in Objects \cup {tape} : PrintLogs(v)
    \/ BodyRaises
    \/ Unwind
    \/ Catch

InitTape == TapeIdle /\ MulIdle /\ SetupIdle

SpecTape == InitTape /\ [][TapeNext]_vars

\* --------------------------------------------------------------- Multiplier
Ints == -MaxAbs .. MaxAbs

ArgLists == {<<>>} \cup {<<a>> : a \in Ints} \cup (Ints \X Ints)

InitMultiplier ==
    /\ TapeIdle
    /\ SetupIdle
    /\ mArgs \in ArgLists
    /\ mRet = [kind |-> "notcalled", val |-> 0]

\* multiplier(*mArgs)
MulCall ==
    /\ mRet.kind = "notcalled"
    /\ mRet' = Multiplier_call(mArgs)
    /\ UNCHANGED <<mArgs, tapeVars, setupVars>>

SpecMultiplier == InitMultiplier /\ [][MulCall]_vars

\* ----------------------------------------------------------------- setup.py
\* Number of packages verify_installation imports (test_imports).
NumImports == 7

\* Python's comparison of two pairs, as in version[:2] < (3, 11).
TupleLess(a, b) == a[1] < b[1] \/ (a[1] = b[1] /\ a[2] < b[2])

\* run_command: subprocess.run with check=True. A command that ends with a
\* non-zero status raises CalledProcessError, which is caught and turned into
\* None; a program that cannot be started raises an OSError, which is not
\* caught here.
run_command(canStart, exitsZero) ==
    IF ~canStart THEN "raise"
    ELSE IF exitsZero THEN "result" ELSE "None"

check_python_version(v) ==
    IF TupleLess(v, <<3, 11>>) THEN "False"
    ELSE IF TupleLess(<<3, 12>>, v) THEN "False"
    ELSE "True"

get_os_info(system) ==
    IF system = "darwin" THEN "mac"
    ELSE IF system = "windows" THEN "windows"
    ELSE "linux"

\* check_system_dependencies: only a mac without Homebrew makes it return
\* False; the results of the package-manager commands are not looked at.
check_system_dependencies(os, hasBrew) ==
    IF os = "mac" /\ ~hasBrew THEN "False" ELSE "True"

\* input(...).strip().lower() on the answers the model types.
StripLower(answer) ==
    CASE answer = "Y" -> "y"
      [] answer = " y " -> "y"
      [] OTHER -> answer

Answers == {"y", "Y", " y ", "n", "", "yes"}

\* create_virtual_environment: the path returned ("None" for None) and
\* whether the venv command was run.
create_virtual_environment(exists, answer, venvExitsZero) ==
    IF exists /\ StripLower(answer) # "y"
    THEN [ret |-> "path", created |-> FALSE]
    ELSE IF run_command(TRUE, venvExitsZero) = "result"
         THEN [ret |-> "path", created |-> TRUE]
         ELSE [ret |-> "None", created |-> FALSE]

Ran(cmd, outcome) == [cmd |-> cmd, outcome |-> outcome]

\* Mutant of install_requirements: the result of the retry is not looked at.
install_requirements_blind(reqExists, py, pip, upZero, firstZero, retryZero) ==
    LET up == run_command(py, upZero)
        first == run_command(pip, firstZero)
        retry == run_command(pip, retryZero)
    IN IF ~reqExists THEN [ret |-> "False", cmds |-> <<>>]
       ELSE IF up # "result"
       THEN [ret |-> IF up = "raise" THEN "raise" ELSE "False",
             cmds |-> <<Ran("pip_upgrade", up)>>]
       ELSE IF first = "result"
       THEN [ret |-> "True",
             cmds |-> <<Ran("pip_upgrade", up), Ran("install", first)>>]
       ELSE IF first = "raise"
       THEN [ret |-> "raise",
             cmds |-> <<Ran("pip_upgrade", up), Ran("install", first)>>]
       ELSE [ret |-> IF retry = "raise" THEN "raise" ELSE "True",
             cmds |-> <<Ran("pip_upgrade", up), Ran("install", first),
                        Ran("install_no_cache", retry)>>]

\* install_requirements: what it returns ("raise" when an exception leaves
\* it) and the commands it ran, each with run_command's outcome.
install_requirements(reqExists, py, pip, upZero, firstZero, retryZero) ==
    LET up == run_command(py, upZero)
        first == run_command(pip, firstZero)
        retry == run_command(pip, retryZero)
    IN IF ~reqExists THEN [ret |-> "False", cmds |-> <<>>]
       ELSE IF up # "result"
       THEN [ret |-> IF up = "raise" THEN "raise" ELSE "False",
             cmds |-> <<Ran("pip_upgrade", up)>>]
       ELSE IF first = "result"
       THEN [ret |-> "True",
             cmds |-> <<Ran("pip_upgrade", up), Ran("install", first)>>]
       ELSE IF first = "raise"
       THEN [ret |-> "raise",
             cmds |-> <<Ran("pip_upgrade", up), Ran("install", first)>>]
       ELSE [ret |-> CASE retry = "result" -> "True"
                       [] retry = "None" -> "False"
                       [] OTHER -> "raise",
             cmds |-> <<Ran("pip_upgrade", up), Ran("install", first),
                        Ran("install_no_cache", retry)>>]

setup_jupyter_kernel(py, exitsZero) ==
    CASE run_command(py, exitsZero) = "result" -> "True"
      [] run_command(py, exitsZero) = "None" -> "False"
      [] OTHER -> "raise"

\* verify_installation: the imports are tried in order and the first one that
\* fails ends the loop; firstFail = 0 when every import works.
verify_installation(py, firstFail) ==
    IF ~py THEN "raise"
    ELSE IF firstFail = 0 THEN "True" ELSE "False"

\* Mutant of main: a failed verification ends the run like the earlier steps.
main_after_verify_exits(step, ret) ==
    IF ret = "raise" THEN "exit1"
    ELSE CASE step = "check_python_version" ->
                IF ret = "True" THEN "get_os_info" ELSE "exit1"
           [] step = "get_os_info" -> "check_system_dependencies"
           [] step = "check_system_dependencies" ->
                IF ret = "True" THEN "create_virtual_environment" ELSE "exit1"
           [] step = "create_virtual_environment" ->
                IF ret # "None" THEN "install_requirements" ELSE "exit1"
           [] step = "install_requirements" ->
                IF ret = "True" THEN "setup_jupyter_kernel" ELSE "exit1"
           [] step = "setup_jupyter_kernel" -> "verify_installation"
           [] step = "verify_installation" ->
                IF ret = "True" THEN "print_next_steps" ELSE "exit1"
           [] OTHER -> "return"

\* main: the statement that follows each step, given what the step returned.
\* An exception that leaves main is caught at the bottom of the script, which
\* exits with status 1.
main_after(step, ret) ==
    IF ret = "raise" THEN "exit1"
    ELSE CASE step = "check_python_version" ->
                IF ret = "True" THEN "get_os_info" ELSE "exit1"
           [] step = "get_os_info" -> "check_system_dependencies"
           [] step = "check_system_dependencies" ->
                IF ret = "True" THEN "create_virtual_environment" ELSE "exit1"
           [] step = "create_virtual_environment" ->
                IF ret # "None" THEN "install_requirements" ELSE "exit1"
           [] step = "install_requirements" ->
                IF ret = "True" THEN "setup_jupyter_kernel" ELSE "exit1"
           [] step = "setup_jupyter_kernel" -> "verify_installation"
           [] step = "verify_installation" -> "print_next_steps"
           [] OTHER -> "return"

Versions == {<<2, 7>>, <<3, 10>>, <<3, 11>>, <<3, 12>>, <<3, 13>>, <<4, 0>>}

Systems == {"darwin", "windows", "linux"}

InitSetup ==
    /\ TapeIdle
    /\ MulIdle
    /\ pc = "check_python_version"
    /\ version \in Versions
    /\ os_type = "unknown"
    /\ pyExe = FALSE
    /\ pipExe = FALSE
    /\ ran = <<>>
    /\ res = NoResults
    /\ inst = <<>>
    /\ banner = FALSE
    /\ exitcode = -1

Step(step, ret) ==
    /\ ran' = Append(ran, step)
    /\ pc' = main_after(step, ret)

MainCheckPython ==
    /\ pc = "check_python_version"
    /\ LET r == check_python_version(version)
       IN /\ Step("check_python_version", r)
          /\ res' = [res EXCEPT !.check_python_version = r]
    /\ UNCHANGED <<version, os_type, pyExe, pipExe, inst, banner, exitcode,
                   tapeVars, mulVars>>

MainGetOs ==
    /\ pc = "get_os_info"
    /\ \E system \in Systems :
          /\ os_type' = get_os_info(system)
          /\ Step("get_os_info", "True")
    /\ UNCHANGED <<version, pyExe, pipExe, res, inst, banner, exitcode,
                   tapeVars, mulVars>>

MainCheckDeps ==
    /\ pc = "check_system_dependencies"
    /\ \E hasBrew \in BOOLEAN :
          LET r == check_system_dependencies(os_type, hasBrew)
          IN /\ Step("check_system_dependencies", r)
             /\ res' = [res EXCEPT !.check_system_dependencies = r]
    /\ UNCHANGED <<version, os_type, pyExe, pipExe, inst, banner, exitcode,
                   tapeVars, mulVars>>

\* A venv that was just created holds python and pip; one that was kept may
\* hold anything.
MainCreateVenv ==
    /\ pc = "create_virtual_environment"
    /\ \E exists \in BOOLEAN, answer \in Answers, zero \in BOOLEAN,
          keptPy \in BOOLEAN, keptPip \in BOOLEAN :
          LET r == create_virtual_environment(exists, answer, zero)
          IN /\ Step("create_virtual_environment", r.ret)
             /\ res' = [res EXCEPT !.create_virtual_environment = r.ret]
             /\ pyExe' = IF r.created THEN TRUE ELSE r.ret # "None" /\ keptPy
             /\ pipExe' = IF r.created THEN TRUE
                          ELSE r.ret # "None" /\ keptPip
    /\ UNCHANGED <<version, os_type, inst, banner, exitcode, tapeVars,
                   mulVars>>

MainInstall ==
    /\ pc = "install_requirements"
    /\ \E reqExists \in BOOLEAN, upZero \in BOOLEAN, firstZero \in BOOLEAN,
          retryZero \in BOOLEAN :
          LET r == install_requirements(reqExists, pyExe, pipExe, upZero,
                                        firstZero, retryZero)
          IN /\ Step("install_requirements", r.ret)
             /\ res' = [res EXCEPT !.install_requirements = r.ret]
             /\ inst' = <<[requirements |-> reqExists]>> \o r.cmds
    /\ UNCHANGED <<version, os_type, pyExe, pipExe, banner, exitcode,
                   tapeVars, mulVars>>

MainKernel ==
    /\ pc = "setup_jupyter_kernel"
    /\ \E zero \in BOOLEAN :
          LET r == setup_jupyter_kernel(pyExe, zero)
          IN /\ Step("setup_jupyter_kernel", r)
             /\ res' = [res EXCEPT !.setup_jupyter_kernel = r]
    /\ UNCHANGED <<version, os_type, pyExe, pipExe, inst, banner, exitcode,
                   tapeVars, mulVars>>

MainVerify ==
    /\ pc = "verify_installation"
    /\ \E firstFail \in 0 .. NumImports :
          LET r == verify_installation(pyExe, firstFail)
          IN /\ Step("verify_installation", r)
             /\ res' = [res EXCEPT !.verify_installation = r]
    /\ UNCHANGED <<version, os_type, pyExe, pipExe, inst, banner, exitcode,
                   tapeVars, mulVars>>

MainNextSteps ==
    /\ pc = "print_next_steps"
    /\ banner' = TRUE
    /\ Step("print_next_steps", "True")
    /\ UNCHANGED <<version, os_type, pyExe, pipExe, res, inst, exitcode,
                   tapeVars, mulVars>>

\* main returns and the interpreter ends with status 0.
MainReturn ==
    /\ pc = "return"
    /\ pc' = "done"
    /\ exitcode' = 0
    /\ UNCHANGED <<version, os_type, pyExe, pipExe, ran, res, inst, banner,
                   tapeVars, mulVars>>

\* sys.exit(1)
MainExit1 ==
    /\ pc = "exit1"
    /\ pc' = "done"
    /\ exitcode' = 1
    /\ UNCHANGED <<version, os_type, pyExe, pipExe, ran, res, inst, banner,
                   tapeVars, mulVars>>

SetupNext ==
    \/ MainCheckPython
    \/ MainGetOs
    \/ MainCheckDeps
    \/ MainCreateVenv
    \/ MainInstall
    \/ MainKernel
    \/ MainVerify
    \/ MainNextSteps
    \/ MainReturn
    \/ MainExit1

SpecSetup == InitSetup /\ [][SetupNext]_vars

\* =================================================================== claims
IsPrefix(s, t) == Len(s) <= Len(t) /\ s = SubSeq(t, 1, Len(s))

OpenManagers == {stack[i].mgr : i \in 1 .. Depth}

\* C1: print_logs called on a recorder after its window has closed ends
\* normally and writes exactly the entries add_to_log took for that recorder,
\* in insertion order (nothing when there were none).
C1_DumpYieldsAppends ==
    (last.op = "print_logs" /\ last.target # None
        /\ last.target \notin OpenManagers)
    => (last.outcome = "None" /\ out = appended[last.target])

\* C2: when the body of a window raised, then once the error has reached the
\* caller the slot is None, the recorder of that window holds exactly the
\* entries appended before the error, and the error caught is the one raised.
C2_ErrorInWindowReleasesSlot ==
    (last.op = "catch" /\ raised.in # None)
    => /\ logging_tape = None
       /\ logs[raised.in] = List(appended[raised.in])
       /\ caught = raised.exc

\* C3: opening a window (none being open) leaves the new recorder with an
\* empty entry list, puts it in the slot and binds it to the `as` name.
C3_EnterPublishesAndReturnsSelf ==
    (last.op = "enter" /\ last.depthBefore = 0)
    => /\ last.outcome = "None"
       /\ logs[last.target] = List(<<>>)
       /\ logging_tape = last.target
       /\ tape = last.target
       /\ Depth = 1 /\ Top = [mgr |-> last.target, as |-> last.target]

\* C4: between calls, the slot is not None exactly when one window is open,
\* and it then holds that window's recorder.
C4_SlotIffOneWindowOpen ==
    exc = "None"
    => /\ (logging_tape # None) <=> (Depth = 1)
       /\ Depth = 1 => logging_tape = stack[1].mgr

C6_AppendOutsideWindowIsError ==
    (last.op \in {"add_to_log", "travel"} /\ last.depthBefore = 0)
    => (last.outcome # "None" /\ logs = last.logsBefore)

\* C6 (amended): Car.travel called while Logger.logging_tape is None raises
\* AttributeError and changes no recorder's entry list.
C6_TravelWithEmptySlotRaises ==
    (last.op = "travel" /\ last.slotBefore = None)
    => /\ last.outcome = "AttributeError"
       /\ raised.exc = "AttributeError"
       /\ logs = last.logsBefore

C6_Witness ==
    /\ last.op = "travel"
    /\ last.slotBefore = None
    /\ last.depthBefore = 0
    /\ last.outcome = "AttributeError"
    /\ Len(logs) > 0

\* C7: Car.travel called inside a window ends normally and appends
\* "Traveled Distance <distance>" to that window's recorder and to no other.
C7_TravelLogsIntoOpenWindow ==
    (last.op = "travel" /\ last.depthBefore = 1)
    => /\ last.outcome = "None"
       /\ last.target = stack[1].mgr
       /\ \A r \in Objects :
             logs[r] = IF r = stack[1].mgr
                       THEN List(Append(last.logsBefore[r].items, last.arg))
                       ELSE last.logsBefore[r]

\* C8: a Multiplier called with two integers returns their product.
C8_MultiplierReturnsProduct ==
    (mRet.kind # "notcalled" /\ Len(mArgs) = 2)
    => (mRet.kind = "int" /\ mRet.val = mArgs[1] * mArgs[2])

StepOrder == <<"check_python_version", "check_system_dependencies",
               "create_virtual_environment", "install_requirements",
               "setup_jupyter_kernel", "verify_installation",
               "print_next_steps">>

IsClaimStep(step) == \E i \in 1 .. Len(StepOrder) : StepOrder[i] = step

FirstFourOk ==
    /\ res.check_python_version = "True"
    /\ res.check_system_dependencies = "True"
    /\ res.create_virtual_environment = "path"
    /\ res.install_requirements = "True"

\* C9: main calls its steps in the fixed order; the banner is printed if and
\* only if the first four steps succeeded; when one of them fails the run
\* ends with status 1 and no later step is called; a failed kernel setup or
\* import verification does not stop the run, which prints the banner and
\* ends with status 0.
C9_MainOrderAndBanner ==
    /\ IsPrefix(SelectSeq(ran, IsClaimStep), StepOrder)
    /\ banner => FirstFourOk
    /\ pc = "done" =>
          /\ banner <=> FirstFourOk
          /\ exitcode = IF FirstFourOk THEN 0 ELSE 1
          /\ ~FirstFourOk =>
                /\ res[ran[Len(ran)]] \notin {"True", "path"}
                /\ res.setup_jupyter_kernel = "notrun"
                /\ res.verify_installation = "notrun"
    /\ (res.setup_jupyter_kernel = "False"
            \/ res.verify_installation = "False") =>
          /\ pc # "exit1"
          /\ pc = "done" => (banner /\ exitcode = 0)

C9_Witness ==
    /\ pc = "done"
    /\ banner
    /\ exitcode = 0
    /\ res.setup_jupyter_kernel = "False"
    /\ res.verify_installation = "False"

Count(cmds, name) == Cardinality({i \in 1 .. Len(cmds) : cmds[i].cmd = name})

====
